---------------------------- MODULE Spec2Model ----------------------------
(***************************************************************************)
(* A model of src/app.py: the /analyze request pipeline (validation,       *)
(* ingestion of uploads, prompt composition, the call of the generation    *)
(* backend, post-processing) and of its pure helpers read_pdf, read_txt,   *)
(* read_csv_file, process_files and build_prompt.                          *)
(*                                                                         *)
(* Python strings are TLA+ strings (TLC evaluates Len, \o and SubSeq on    *)
(* them); a byte string is a tuple of integers 0..255.                     *)
(*                                                                         *)
(* The characters of the model's strings are those of the codes U+0001 to  *)
(* U+00FF, U+0060 excepted, and U+1680.  On strings of these characters    *)
(* Lower, Strip and SplitLines are str.lower(), str.strip() and            *)
(* str.splitlines(); no string of the model holds another character.       *)
(***************************************************************************)
EXTENDS Integers, Sequences, FiniteSets, TLC

VARIABLES
    pc,            \* position of the request in analyze / of a helper call
    form,          \* request.form: [prompt, model], each [present, value]
    files,         \* request.files.getlist("files"), in upload order
    prompt,        \* analyze: the stripped instruction
    model_name,    \* analyze: the model identifier used
    file_context,  \* process_files: data, the (name, text) pairs so far
    full_prompt,   \* analyze: the composed prompt
    response,      \* what the backend call produced
    result,        \* the result returned to the caller: [status, body]
    calls,         \* the functions analyze has called, in order
    reads,         \* number of uploads whose read() was called
    sent,          \* the prompts the backend was invoked with, in order
    returned,      \* number of results returned by the request
    arg,           \* helper specifications: the argument of the call
    ret            \* helper specifications: the value returned

vars == <<pc, form, files, prompt, model_name, file_context, full_prompt,
          response, result, calls, reads, sent, returned, arg, ret>>

-----------------------------------------------------------------------------
(* Bounds of the model.                                                    *)

MaxFrags == 2
MaxFiles == 2
MaxDocs == 2
MaxOver == 2
MaxPages == 12
MaxRows == 62

-----------------------------------------------------------------------------
(* Python str operations.                                                  *)

At(s, i) == SubSeq(s, i, i)

Min(a, b) == IF a <= b THEN a ELSE b

\* s[:n]
Take(s, n) == SubSeq(s, 1, Min(Len(s), n))

\* sub in s
Contains(s, sub) ==
    \E i \in 1..(Len(s) - Len(sub) + 1) : SubSeq(s, i, i + Len(sub) - 1) = sub

\* s.endswith(suffix)
EndsWith(s, suffix) ==
    /\ Len(suffix) <= Len(s)
    /\ SubSeq(s, Len(s) - Len(suffix) + 1, Len(s)) = suffix

\* the characters str.lower() changes, in code order: A..Z and the letters
\* of U+00C0..U+00DE (U+00D7, the multiplication sign, is none)
UpperChars == "ABCDEFGHIJKLMNOPQRSTUVWXYZÀÁÂÃÄÅÆÇÈÉÊËÌÍÎÏÐÑÒÓÔÕÖØÙÚÛÜÝÞ"

\* what str.lower() makes of them
LowerChars == "abcdefghijklmnopqrstuvwxyzàáâãäåæçèéêëìíîïðñòóôõöøùúûüýþ"

LowerChar(c) ==
    IF \E k \in 1..Len(UpperChars) : At(UpperChars, k) = c
    THEN At(LowerChars, CHOOSE k \in 1..Len(UpperChars) : At(UpperChars, k) = c)
    ELSE c

\* s[lo..hi] lower-cased, by halves
RECURSIVE LowerRange(_, _, _)
LowerRange(s, lo, hi) ==
    IF lo > hi THEN ""
    ELSE IF lo = hi THEN LowerChar(At(s, lo))
    ELSE LET mid == (lo + hi) \div 2
         IN  LowerRange(s, lo, mid) \o LowerRange(s, mid + 1, hi)

\* s.lower()
Lower(s) == LowerRange(s, 1, Len(s))

\* the characters of codes 1..31, in code order
Controls ==
    "\t\n\f\r"

\* the characters of codes 32..127, in code order ("?" holds the place of
\* code 96, which a TLA+ string cannot hold: no byte string of the model has
\* it, nor the code 0)
Printable ==
    " !\"#$%&'()*+,-./0123456789:;<=>?@ABCDEFGHIJKLMNOPQRSTUVWXYZ[\\]^_?" \o
    "abcdefghijklmnopqrstuvwxyz{|}~"

\* the characters of codes 128..255, in code order
Latin1High ==
    " ¡¢£¤¥¦§¨©ª«¬­®¯°±²³´µ¶·¸¹º»¼½¾¿" \o
    "ÀÁÂÃÄÅÆÇÈÉÊËÌÍÎÏÐÑÒÓÔÕÖ×ØÙÚÛÜÝÞßàáâãäåæçèéêëìíîïðñòóôõö÷øùúûüýþÿ"

\* the character of a code below 256
Chr(b) ==
    IF b >= 128 THEN At(Latin1High, b - 127)
    ELSE IF b >= 32 THEN At(Printable, b - 31)
    ELSE IF b >= 1 THEN At(Controls, b)
    ELSE "?"

\* the white space beyond ASCII a string of the model can hold: U+0085, U+00A0, U+1680
\* (it cannot hold U+2000..U+200A, U+2028, U+2029, U+202F, U+205F, U+3000,
\* which str.isspace() accepts as well: no string of the model has them)
WideSpaces == "  "

NEL == At(WideSpaces, 1)

NBSP == At(WideSpaces, 2)

\* the characters c of a TLA+ string with c.isspace(): the ASCII codes
\* 9..13, 28..31 and 32, and the wide ones
Whitespace ==
    {Chr(b) : b \in (9..13) \cup (28..32)} \cup {At(WideSpaces, k) : k \in 1..Len(WideSpaces)}

\* the characters str.strip() removes
IsSpace(c) == c \in Whitespace

\* a strip() that was forgotten
Strip_Forgotten(s) == s

\* s.strip()
Strip(s) ==
    LET keep == {i \in 1..Len(s) : ~IsSpace(At(s, i))}
    IN  IF keep = {} THEN ""
        ELSE SubSeq(s, CHOOSE i \in keep : \A j \in keep : i <= j,
                       CHOOSE i \in keep : \A j \in keep : j <= i)

\* sep.join(parts[lo..hi]), by halves
RECURSIVE JoinRange(_, _, _, _)
JoinRange(sep, parts, lo, hi) ==
    IF lo > hi THEN ""
    ELSE IF lo = hi THEN parts[lo]
    ELSE LET mid == (lo + hi) \div 2
         IN  JoinRange(sep, parts, lo, mid) \o sep \o JoinRange(sep, parts, mid + 1, hi)

\* sep.join(parts)
Join(sep, parts) == JoinRange(sep, parts, 1, Len(parts))

\* the pieces of s around its separators, each separator the pair of its first
\* and last position
Pieces(s, seps) ==
    LET n == Cardinality(seps)
        rank == [x \in seps |-> Cardinality({y \in seps : y[1] < x[1]})]
        nth == [k \in 1..n |-> CHOOSE x \in seps : rank[x] = k - 1]
    IN  [k \in 1..(n + 1) |->
            SubSeq(s, IF k = 1 THEN 1 ELSE nth[k - 1][2] + 1,
                      IF k = n + 1 THEN Len(s) ELSE nth[k][1] - 1)]

-----------------------------------------------------------------------------
(* Byte strings and their decoding.  The bytes of the model are ASCII and  *)
(* 255, a byte no UTF-8 text contains.                                     *)

ValidUtf8(raw) == \A i \in 1..Len(raw) : raw[i] < 128

\* raw.decode("utf-8", errors="ignore") of raw[lo..hi]: invalid bytes are dropped
RECURSIVE DecodeIgnore(_, _, _)
DecodeIgnore(raw, lo, hi) ==
    IF lo > hi THEN ""
    ELSE IF lo = hi THEN (IF raw[lo] < 128 THEN Chr(raw[lo]) ELSE "")
    ELSE LET mid == (lo + hi) \div 2
         IN  DecodeIgnore(raw, lo, mid) \o DecodeIgnore(raw, mid + 1, hi)

\* raw.decode("latin-1", errors="ignore") of raw[lo..hi]: every byte is a character
RECURSIVE DecodeLatin1(_, _, _)
DecodeLatin1(raw, lo, hi) ==
    IF lo > hi THEN ""
    ELSE IF lo = hi THEN Chr(raw[lo])
    ELSE LET mid == (lo + hi) \div 2
         IN  DecodeLatin1(raw, lo, mid) \o DecodeLatin1(raw, mid + 1, hi)

-----------------------------------------------------------------------------
(* Exceptions.  What a call may raise is NoError when it succeeds and      *)
(* Raised(msg) when it raises an exception e with str(e) = msg, which may  *)
(* be the empty string.                                                    *)

NoError == <<>>

Raised(msg) == <<msg>>

\* str(e) of the exception raised
Message(e) == e[1]

-----------------------------------------------------------------------------
(* Streams.  A stream holds its bytes, raw; what PdfReader makes of them,  *)
(* pdf = [error, pages], error what PdfReader raises, each page            *)
(* [kind, text] with kind "text" (extract_text returns text), "none" (it   *)
(* returns None) or "raise" (it raises, text the message); and fault, what *)
(* seek or read raises.                                                    *)

NoPdf == [error |-> Raised("EOF marker not found"), pages |-> <<>>]

\* BytesIO(content): seek and read never fail
BytesIO(content) == [raw |-> content.raw, pdf |-> content.pdf, fault |-> NoError]

-----------------------------------------------------------------------------
(* read_pdf                                                                *)

\* if i > 10: break
PageCap_OffByOne == 10 + 1

\* if i >= 10: break
PageCap == 10

\* the loop of read_pdf from page index i (0-based); attempted lists the
\* indexes extract_text was called on
RECURSIVE PdfLoop(_, _, _, _)
PdfLoop(pdf_pages, i, pages, attempted) ==
    IF i >= Len(pdf_pages) \/ i >= PageCap
    THEN [text |-> Join("\n", pages), attempted |-> attempted]
    ELSE LET p == pdf_pages[i + 1]
             txt == IF p.kind = "text" THEN p.text ELSE ""
         IN  IF p.kind = "raise"
             THEN [text |-> "[PDF read error: " \o p.text \o "]",
                   attempted |-> Append(attempted, i)]
             ELSE PdfLoop(pdf_pages, i + 1,
                          IF Strip(txt) # "" THEN Append(pages, txt) ELSE pages,
                          Append(attempted, i))

\* read_pdf with the page indexes it called extract_text on
read_pdf_run(file) ==
    IF file.fault # NoError
    THEN [text |-> "[PDF read error: " \o Message(file.fault) \o "]",
          attempted |-> <<>>]
    ELSE IF file.pdf.error # NoError
    THEN [text |-> "[PDF read error: " \o Message(file.pdf.error) \o "]",
          attempted |-> <<>>]
    ELSE PdfLoop(file.pdf.pages, 0, <<>>, <<>>)

read_pdf(file) == read_pdf_run(file).text

-----------------------------------------------------------------------------
(* read_txt                                                                *)

read_txt(file) ==
    IF file.fault # NoError
    THEN "[TXT read error: " \o Message(file.fault) \o "]"
    ELSE IF ValidUtf8(file.raw)
    THEN DecodeIgnore(file.raw, 1, Len(file.raw))
    ELSE DecodeLatin1(file.raw, 1, Len(file.raw))

-----------------------------------------------------------------------------
(* read_csv_file.  The CSV texts of the model hold no quote character and  *)
(* no field longer than the csv module's field limit, so that csv.reader   *)
(* splits each line at its commas.                                         *)

\* the one-character line boundaries of str.splitlines() besides "\n" and
\* "\r": the codes 11, 12, 28, 29, 30 and U+0085 (U+2028 and U+2029, which a
\* TLA+ string cannot hold, are boundaries as well)
LineEnds == {Chr(b) : b \in {11, 12, 28, 29, 30}} \cup {NEL}

\* the line breaks of text: "\r\n" is one break
LineBreaks(text) ==
    {<<i, i + 1>> : i \in {j \in 1..(Len(text) - 1) :
                              At(text, j) = "\r" /\ At(text, j + 1) = "\n"}}
    \cup {<<i, i>> : i \in {j \in 1..Len(text) :
              \/ At(text, j) \in LineEnds
              \/ At(text, j) = "\r" /\ (j = Len(text) \/ At(text, j + 1) # "\n")
              \/ At(text, j) = "\n" /\ (j = 1 \/ At(text, j - 1) # "\r")}}

\* text.splitlines(): no line follows the last break
SplitLines(text) ==
    LET p == Pieces(text, LineBreaks(text))
    IN  IF p[Len(p)] = "" THEN SubSeq(p, 1, Len(p) - 1) ELSE p

\* the fields of a non-empty line
SplitFields(line) ==
    Pieces(line, {<<i, i>> : i \in {j \in 1..Len(line) : At(line, j) = ","}})

\* the row csv.reader yields for one line
CsvRow(line) == IF line = "" THEN <<>> ELSE SplitFields(line)

\* list(csv.reader(text.splitlines()))
CsvRows(text) ==
    LET lines == SplitLines(text)
    IN  [k \in 1..Len(lines) |-> CsvRow(lines[k])]

max_rows == 60

TruncatedRow == <<"... TRUNCATED ...">>

\* a preview that truncates from max_rows rows on
PreviewRows_FromMax(rows) ==
    IF Len(rows) >= max_rows
    THEN SubSeq(rows, 1, max_rows) \o <<TruncatedRow>>
    ELSE rows

\* the rows kept for the preview
PreviewRows(rows) ==
    IF Len(rows) > max_rows
    THEN SubSeq(rows, 1, max_rows) \o <<TruncatedRow>>
    ELSE rows

\* "\n".join([", ".join(r) for r in rows])
RenderRows(rows) == Join("\n", [k \in 1..Len(rows) |-> Join(", ", rows[k])])

read_csv_file(file) ==
    IF file.fault # NoError
    THEN "[CSV read error: " \o Message(file.fault) \o "]"
    ELSE LET text == DecodeIgnore(file.raw, 1, Len(file.raw))
         IN  RenderRows(PreviewRows(CsvRows(text)))

-----------------------------------------------------------------------------
(* process_files.  An upload is [filename, read_error, content]: filename  *)
(* "" when the part has none, read_error what its read() raises, content   *)
(* = [raw, pdf].                                                           *)

\* f.filename or "file"
UploadName(f) == IF f.filename = "" THEN "file" ELSE f.filename

\* the extractor chosen by the suffix of the name
ExtractText(name, file_stream) ==
    IF EndsWith(Lower(name), ".pdf") THEN read_pdf(file_stream)
    ELSE IF EndsWith(Lower(name), ".csv") THEN read_csv_file(file_stream)
    ELSE IF EndsWith(Lower(name), ".txt") \/ EndsWith(Lower(name), ".log")
    THEN read_txt(file_stream)
    ELSE "[Unsupported file type: " \o name \o "]"

\* one iteration of the loop of process_files, for an upload whose read()
\* succeeds: the pair appended to data
ProcessOne(f) ==
    [name |-> UploadName(f),
     text |-> ExtractText(UploadName(f), BytesIO(f.content))]

\* process_files(files) from data: the list returned, or the exception that
\* leaves the function at the first upload whose read() raises
RECURSIVE process_files(_, _)
process_files(fs, data) ==
    IF fs = <<>> THEN [raised |-> NoError, data |-> data]
    ELSE IF Head(fs).read_error # NoError
    THEN [raised |-> Head(fs).read_error, data |-> data]
    ELSE process_files(Tail(fs), Append(data, ProcessOne(Head(fs))))

-----------------------------------------------------------------------------
(* build_prompt                                                            *)

\* the f-string of build_prompt up to {code_lang}
TemplateHead ==
    "\n" \o
    "You are an expert actuarial analysis assistant.\n" \o
    "\n" \o
    "Your entire response MUST be clean and structured into four sections using Markdown ### headings.\n" \o
    "CRITICAL RULE: **DO NOT use the dollar symbol ($) or double dollar symbol ($$) anywhere in your response.** Use only standard characters, words, or Markdown formatting.\n" \o
    "\n" \o
    "### Explanation\n" \o
    "Explain clearly in simple language. If you need to write a fraction, use standard notation like '4/5' or write 'four divided by five'.\n" \o
    "\n" \o
    "### Code\n" \o
    "Write clean, minimal code related to the actuarial problem in **"

\* the f-string between {code_lang} and {user_prompt}
TemplateMid ==
    "**. If no language is specified, use Python.\n" \o
    "\n" \o
    "### Time & Space Complexity\n" \o
    "Provide a detailed breakdown of the complexity in a comprehensive Markdown table format, with clear workings. Use standard notation like O(log n), O(n^2), or O(1).\n" \o
    "Example Table Structure:\n" \o
    "| Metric | Complexity | Working/Reasoning |\n" \o
    "|:---|:---|:---|\n" \o
    "| **Time Complexity** | O(n log n) | The algorithm involves sorting (n log n) and a linear scan (n). The overall time is dominated by the sorting step. |\n" \o
    "| **Space Complexity** | O(n) | Requires auxiliary space proportional to the input size 'n' to store intermediate results. |\n" \o
    "\n" \o
    "### Suggestions\n" \o
    "Provide suggestions for improving the code, performance, security, or related actuarial assumptions.\n" \o
    "\n" \o
    "USER PROMPT:\n"

\* the f-string after {user_prompt}
TemplateTail ==
    "\n" \o
    "\n"

UploadsHeader == "\n\nUPLOADS PROVIDED:\n"

ClosingDirective == "\nFollow the exact format strictly.\n"

\* text[:10000]
TextCap == 10000

\* the language rules with the Java rule tried first
code_lang_JavaFirst(user_prompt) ==
    LET prompt_lower == Lower(user_prompt)
    IN  IF Contains(prompt_lower, "java code")
        THEN "Java"
        ELSE IF Contains(prompt_lower, "c++ code") \/ Contains(prompt_lower, "cpp code")
        THEN "C++"
        ELSE IF Contains(prompt_lower, "javascript code")
                \/ Contains(prompt_lower, "js code")
        THEN "JavaScript"
        ELSE "Python"

\* the language rules of build_prompt, on the lower-cased instruction
code_lang(user_prompt) ==
    LET prompt_lower == Lower(user_prompt)
    IN  IF Contains(prompt_lower, "c++ code") \/ Contains(prompt_lower, "cpp code")
        THEN "C++"
        ELSE IF Contains(prompt_lower, "java code")
        THEN "Java"
        ELSE IF Contains(prompt_lower, "javascript code")
                \/ Contains(prompt_lower, "js code")
        THEN "JavaScript"
        ELSE "Python"

\* an iteration that embeds the whole text
FileSegment_Uncapped(doc) ==
    "\n--- FILE: " \o doc.name \o " ---\n" \o doc.text \o "\n"

\* one iteration of the loop over file_context
FileSegment(doc) ==
    "\n--- FILE: " \o doc.name \o " ---\n" \o Take(doc.text, TextCap) \o "\n"

RECURSIVE FileSegments(_)
FileSegments(file_ctx) ==
    IF file_ctx = <<>> THEN ""
    ELSE FileSegment(Head(file_ctx)) \o FileSegments(Tail(file_ctx))

\* a composition with the two halves of the template exchanged
build_prompt_HalvesExchanged(user_prompt, file_ctx) ==
    TemplateMid \o code_lang(user_prompt) \o TemplateHead \o user_prompt
        \o TemplateTail
        \o (IF file_ctx # <<>> THEN UploadsHeader \o FileSegments(file_ctx) ELSE "")
        \o ClosingDirective

build_prompt(user_prompt, file_ctx) ==
    LET base == TemplateHead \o code_lang(user_prompt) \o TemplateMid
                    \o user_prompt \o TemplateTail
        uploads == IF file_ctx # <<>>
                   THEN UploadsHeader \o FileSegments(file_ctx)
                   ELSE ""
    IN  base \o uploads \o ClosingDirective

-----------------------------------------------------------------------------
(* analyze                                                                 *)

DEFAULT_MODEL == "gemini-2.5-flash-preview-09-2025"

\* request.form.get(key, default)
FormGet(field, default) == IF field.present THEN field.value ELSE default

NoResult == [status |-> 0, body |-> [none |-> TRUE]]

\* jsonify({"error": msg}), status
ErrorResult(msg, status) == [status |-> status, body |-> [error |-> msg]]

\* the heuristic with the binary-search rule tried first
Complexity_SearchFirst(instruction) ==
    LET low == Lower(instruction)
    IN  IF Contains(low, "binary search") \/ Contains(low, "logarithmic")
        THEN "O(log n)"
        ELSE IF Contains(low, "chain ladder") \/ Contains(low, "ibnr") THEN "O(n^2)"
        ELSE IF Contains(low, "sort") THEN "O(n log n)"
        ELSE "O(1)"

\* the metrics of a successful request: the complexity heuristic
Complexity(instruction) ==
    LET low == Lower(instruction)
    IN  IF Contains(low, "chain ladder") \/ Contains(low, "ibnr") THEN "O(n^2)"
        ELSE IF Contains(low, "binary search") \/ Contains(low, "logarithmic")
        THEN "O(log n)"
        ELSE IF Contains(low, "sort") THEN "O(n log n)"
        ELSE "O(1)"

Metrics(instruction) ==
    [quality |-> "A+", complexity |-> Complexity(instruction), security |-> "Low Risk"]

\* jsonify({"content": ..., "model_used": ..., "metrics": ...})
SuccessResult(output, model, metrics) ==
    [status |-> 200,
     body |-> [content |-> output, model_used |-> model, metrics |-> metrics]]

\* getattr(response, "text", "").strip(): [raised, value].  The text of a
\* response object is [kind, value]: "absent" (no attribute, or an access
\* raising AttributeError), "str", "none" (None), "int" (a number) or
\* "raises" (the access raises another exception, value its message).
ResponseText(resp) ==
    LET t == resp.text
    IN  IF t.kind = "absent" THEN [raised |-> NoError, value |-> ""]
        ELSE IF t.kind = "str" THEN [raised |-> NoError, value |-> Strip(t.value)]
        ELSE IF t.kind = "none"
        THEN [raised |-> Raised("'NoneType' object has no attribute 'strip'"),
              value |-> ""]
        ELSE IF t.kind = "int"
        THEN [raised |-> Raised("'int' object has no attribute 'strip'"),
              value |-> ""]
        ELSE [raised |-> Raised(t.value), value |-> ""]

\* except Exception as e: the generic error result
ServerError(cause) == ErrorResult("Server error: " \o cause, 500)

Return(res) ==
    /\ result' = res
    /\ returned' = returned + 1
    /\ pc' = "done"

\* the form is read and the instruction validated
Validate ==
    /\ pc = "start"
    /\ prompt' = Strip(FormGet(form.prompt, ""))
    /\ model_name' = FormGet(form.model, DEFAULT_MODEL)
    /\ IF prompt' = ""
       THEN Return(ErrorResult("Prompt cannot be empty!", 400))
       ELSE pc' = "ingest" /\ UNCHANGED <<result, returned>>
    /\ UNCHANGED <<form, files, file_context, full_prompt, response, calls,
                   reads, sent, arg, ret>>

\* file_context = process_files(files)
Ingest ==
    /\ pc = "ingest"
    /\ calls' = Append(calls, "process_files")
    /\ \E r \in {process_files(files, <<>>)} :
          /\ file_context' = r.data
          /\ reads' = reads + Len(r.data) + (IF r.raised # NoError THEN 1 ELSE 0)
          /\ IF r.raised # NoError
             THEN Return(ServerError(Message(r.raised)))
             ELSE pc' = "compose" /\ UNCHANGED <<result, returned>>
    /\ UNCHANGED <<form, files, prompt, model_name, full_prompt, response,
                   sent, arg, ret>>

\* full_prompt = build_prompt(prompt, file_context)
Compose ==
    /\ pc = "compose"
    /\ calls' = Append(calls, "build_prompt")
    /\ full_prompt' = build_prompt(prompt, file_context)
    /\ pc' = "generate"
    /\ UNCHANGED <<form, files, prompt, model_name, file_context, response,
                   result, reads, sent, returned, arg, ret>>

\* what the backend may answer: it raises, or returns an object
Responses ==
    {[kind |-> "raise", cause |-> "429 quota exceeded", text |-> [kind |-> "absent", value |-> ""]]}
    \cup {[kind |-> "object", cause |-> "", text |-> t] :
            t \in {[kind |-> "absent", value |-> ""],
                   [kind |-> "none", value |-> ""],
                   [kind |-> "int", value |-> ""],
                   [kind |-> "raises", value |-> "response.text requires a valid Part"],
                   [kind |-> "raises", value |-> ""],
                   [kind |-> "str", value |-> ""],
                   [kind |-> "str", value |-> " \n\t"],
                   [kind |-> "str", value |-> Chr(28) \o NEL],
                   [kind |-> "str", value |-> NBSP \o "ok" \o Chr(11)],
                   [kind |-> "str", value |-> "\n### Explanation\nok \n"]}}

\* response = model.generate_content(full_prompt)
Generate ==
    /\ pc = "generate"
    /\ calls' = Append(calls, "generate_content")
    /\ sent' = Append(sent, [model |-> model_name, prompt |-> full_prompt])
    /\ \E resp \in Responses :
          /\ response' = resp
          /\ IF resp.kind = "raise"
             THEN Return(ServerError(resp.cause))
             ELSE pc' = "post" /\ UNCHANGED <<result, returned>>
    /\ UNCHANGED <<form, files, prompt, model_name, file_context, full_prompt,
                   reads, arg, ret>>

\* a post-processing without the check of an empty output
PostProcess_NoEmptyCheck ==
    /\ pc = "post"
    /\ LET output == ResponseText(response)
       IN  IF output.raised # NoError
           THEN Return(ServerError(Message(output.raised)))
           ELSE Return(SuccessResult(output.value, model_name, Metrics(prompt)))
    /\ UNCHANGED <<form, files, prompt, model_name, file_context, full_prompt,
                   response, calls, reads, sent, arg, ret>>

\* the response is trimmed and validated, the metrics derived
PostProcess ==
    /\ pc = "post"
    /\ LET output == ResponseText(response)
       IN  IF output.raised # NoError
           THEN Return(ServerError(Message(output.raised)))
           ELSE IF output.value = ""
           THEN Return(ErrorResult("Empty response from Gemini API", 500))
           ELSE Return(SuccessResult(output.value, model_name, Metrics(prompt)))
    /\ UNCHANGED <<form, files, prompt, model_name, file_context, full_prompt,
                   response, calls, reads, sent, arg, ret>>

-----------------------------------------------------------------------------
(* The requests of the model.                                              *)

Fragments ==
    {" ", "\n", "I need c++ code", "cpp code", "Java code", "use java",
     "javascript code", "js code", "IBNR", "chain ladder", "binary search",
     "Logarithmic", "sort", "$5", Chr(11)}

\* the concatenations of at most n fragments
RECURSIVE Concats(_)
Concats(n) ==
    IF n = 0 THEN {""}
    ELSE LET S == Concats(n - 1) IN S \cup {s \o f : s \in S, f \in Fragments}

Instructions == Concats(MaxFrags)

FewInstructions == {"", "   ", "sort IbNr", "explain", NBSP \o "sort" \o Chr(31)}

Content(raw) == [raw |-> raw, pdf |-> NoPdf]

Page(kind, text) == [kind |-> kind, text |-> text]

Items ==
    {[filename |-> "notes.txt", read_error |-> NoError, content |-> Content(<<104, 105>>)],
     [filename |-> "x.LOG", read_error |-> NoError, content |-> Content(<<99, 255, 100>>)],
     [filename |-> "DONNÉES.CSV", read_error |-> NoError,
      content |-> Content(<<97, 44, 98, 10, 99, 10>>)],
     [filename |-> "r.pdf", read_error |-> NoError,
      content |-> [raw |-> <<37, 80, 68, 70>>,
                   pdf |-> [error |-> NoError,
                            pages |-> <<Page("text", "one"), Page("none", ""),
                                        Page("text", " \n"), Page("text", "two")>>]]],
     [filename |-> "s.pdf", read_error |-> NoError,
      content |-> [raw |-> <<37, 80, 68, 70, 50>>,
                   pdf |-> [error |-> NoError,
                            pages |-> <<Page("text", "one"),
                                        Page("raise", "bad stream")>>]]],
     [filename |-> "bad.pdf", read_error |-> NoError, content |-> Content(<<120>>)],
     [filename |-> "img.png", read_error |-> NoError, content |-> Content(<<137, 80>>)],
     [filename |-> "", read_error |-> NoError, content |-> Content(<<104, 105>>)],
     [filename |-> "gone.txt", read_error |-> Raised("I/O operation on closed file."),
      content |-> Content(<<>>)]}

\* the sequences of at most n elements of S
RECURSIVE SeqsUpTo(_, _)
SeqsUpTo(S, n) ==
    IF n = 0 THEN {<<>>}
    ELSE LET T == SeqsUpTo(S, n - 1) IN T \cup {Append(t, x) : t \in T, x \in S}

Batches == SeqsUpTo(Items, MaxFiles)

FewBatches ==
    {<<>>,
     <<[filename |-> "notes.txt", read_error |-> NoError, content |-> Content(<<104, 105>>)]>>}

Field(v) == [present |-> TRUE, value |-> v]

Absent == [present |-> FALSE, value |-> ""]

HelperIdle == arg = <<>> /\ ret = <<>>

\* no request is in progress: the state of a helper specification
PipelineIdle ==
    /\ form = [prompt |-> Absent, model |-> Absent]
    /\ files = <<>>
    /\ prompt = ""
    /\ model_name = ""
    /\ file_context = <<>>
    /\ full_prompt = ""
    /\ response = [kind |-> "none", cause |-> "", text |-> [kind |-> "absent", value |-> ""]]
    /\ result = NoResult
    /\ calls = <<>>
    /\ reads = 0
    /\ sent = <<>>
    /\ returned = 0

pipeline_vars ==
    <<form, files, prompt, model_name, file_context, full_prompt, response,
      result, calls, reads, sent, returned>>

\* a request arrives: every instruction with a few batches, every batch with
\* a few instructions
Init ==
    /\ pc = "start"
    /\ \/ /\ form \in {[prompt |-> Field(p), model |-> Absent] : p \in Instructions}
          /\ files \in FewBatches
       \/ /\ form \in {[prompt |-> Field(p), model |-> Field("gemini-pro")] :
                          p \in FewInstructions}
                      \cup {[prompt |-> Absent, model |-> Absent]}
          /\ files \in Batches
    /\ prompt = ""
    /\ model_name = ""
    /\ file_context = <<>>
    /\ full_prompt = ""
    /\ response = [kind |-> "none", cause |-> "", text |-> [kind |-> "absent", value |-> ""]]
    /\ result = NoResult
    /\ calls = <<>>
    /\ reads = 0
    /\ sent = <<>>
    /\ returned = 0
    /\ HelperIdle

Next == Validate \/ Ingest \/ Compose \/ Generate \/ PostProcess

Spec == Init /\ [][Next]_vars

-----------------------------------------------------------------------------
(* build_prompt called on its own.                                         *)

\* s repeated k times
RECURSIVE Repeat(_, _)
Repeat(s, k) ==
    IF k = 0 THEN ""
    ELSE LET h == Repeat(s, k \div 2)
         IN  IF k % 2 = 1 THEN h \o h \o s ELSE h \o h

\* a text of n characters, the last digit of its position at each
LongText(n) == Take(Repeat("1234567890", n \div 10 + 1), n)

Docs ==
    {[name |-> "a.txt", text |-> ""],
     [name |-> "file", text |-> "costs $5\n--- FILE: x ---\n"],
     [name |-> "big.csv", text |-> LongText(TextCap - 1)],
     [name |-> "cap.pdf", text |-> LongText(TextCap)]}
    \cup {[name |-> "over.log", text |-> LongText(TextCap + k)] : k \in 1..MaxOver}

PromptArgs ==
    {[user_prompt |-> p, file_context |-> <<>>] : p \in Instructions}
    \cup {[user_prompt |-> p, file_context |-> d] :
            p \in FewInstructions, d \in SeqsUpTo(Docs, MaxDocs)}

InitPrompt ==
    /\ pc = "call"
    /\ arg \in PromptArgs
    /\ ret = <<>>
    /\ PipelineIdle

CallBuildPrompt ==
    /\ pc = "call"
    /\ ret' = build_prompt(arg.user_prompt, arg.file_context)
    /\ pc' = "returned"
    /\ UNCHANGED <<arg, pipeline_vars>>

SpecPrompt == InitPrompt /\ [][CallBuildPrompt]_vars

-----------------------------------------------------------------------------
(* read_csv_file called on its own.                                        *)

\* the two decimal digits of k, as bytes
Digits(k) == <<48 + ((k \div 10) % 10), 48 + (k % 10)>>

\* line k of a CSV file of the given style
CsvLine(k, style) ==
    IF style = 0 THEN <<114>> \o Digits(k) \o <<44, 120>>
    ELSE IF style = 1 THEN (IF k % 3 = 0 THEN <<>> ELSE Digits(k))
    ELSE IF style = 2 THEN Digits(k) \o <<44, 44, 255, 97>>
    ELSE IF style = 3 THEN Digits(k) \o <<32, 44>>
    ELSE Digits(k) \o <<44, 31>>

\* the line break of a style
CsvBreak(style) ==
    IF style = 2 THEN <<13, 10>> ELSE IF style = 4 THEN <<11>> ELSE <<10>>

\* the bytes of lines lo..hi of a file of n lines, by halves; styles 0 and 2
\* end the last line with a break
RECURSIVE CsvBytes(_, _, _, _)
CsvBytes(lo, hi, n, style) ==
    IF lo > hi THEN <<>>
    ELSE IF lo = hi
    THEN CsvLine(lo, style)
           \o (IF lo < n \/ style \in {0, 2} THEN CsvBreak(style) ELSE <<>>)
    ELSE LET mid == (lo + hi) \div 2
         IN  CsvBytes(lo, mid, n, style) \o CsvBytes(mid + 1, hi, n, style)

CsvStreams ==
    {[raw |-> CsvBytes(1, n, n, style), pdf |-> NoPdf, fault |-> NoError] :
        n \in 0..MaxRows, style \in 0..4}
    \cup {[raw |-> <<>>, pdf |-> NoPdf, fault |-> Raised(m)] :
            m \in {"I/O operation on closed file.", ""}}

InitCsv ==
    /\ pc = "call"
    /\ arg \in CsvStreams
    /\ ret = <<>>
    /\ PipelineIdle

CallReadCsv ==
    /\ pc = "call"
    /\ ret' = read_csv_file(arg)
    /\ pc' = "returned"
    /\ UNCHANGED <<arg, pipeline_vars>>

SpecCsv == InitCsv /\ [][CallReadCsv]_vars

-----------------------------------------------------------------------------
(* read_pdf called on its own.                                             *)

DigitChars == "0123456789"

\* the text of the page of index i
PageText(i) ==
    "page " \o At(DigitChars, ((i \div 10) % 10) + 1) \o At(DigitChars, (i % 10) + 1)

SpecialPages ==
    {Page("none", ""), Page("text", ""), Page("text", " \n\t"),
     Page("text", Chr(11) \o NBSP), Page("raise", "bad stream")}

\* n pages, the one of index j being special
PdfPages(n, j, special) ==
    [k \in 1..n |-> IF k - 1 = j THEN special ELSE Page("text", PageText(k - 1))]

PdfStreams ==
    {[raw |-> <<37, 80, 68, 70>>,
      pdf |-> [error |-> NoError, pages |-> PdfPages(n, j, sp)],
      fault |-> NoError] : n \in 0..MaxPages, j \in 0..MaxPages, sp \in SpecialPages}
    \cup {[raw |-> <<120>>, pdf |-> [error |-> Raised(m), pages |-> <<>>],
           fault |-> NoError] : m \in {"EOF marker not found", ""}}
    \cup {[raw |-> <<>>, pdf |-> NoPdf, fault |-> Raised(m)] :
            m \in {"I/O operation on closed file.", ""}}

InitPdf ==
    /\ pc = "call"
    /\ arg \in PdfStreams
    /\ ret = <<>>
    /\ PipelineIdle

CallReadPdf ==
    /\ pc = "call"
    /\ ret' = read_pdf_run(arg)
    /\ pc' = "returned"
    /\ UNCHANGED <<arg, pipeline_vars>>

SpecPdf == InitPdf /\ [][CallReadPdf]_vars

-----------------------------------------------------------------------------
(* Properties.  Helpers of the statements first.                           *)

\* every character of s is white space
Blank(s) == \A i \in 1..Len(s) : IsSpace(At(s, i))

\* the number of occurrences of the character c in s
Count(s, c) == Cardinality({i \in 1..Len(s) : At(s, i) = c})

\* the position of the first occurrence of sub in s, 0 when there is none
First(s, sub) ==
    LET at == {i \in 1..(Len(s) - Len(sub) + 1) : SubSeq(s, i, i + Len(sub) - 1) = sub}
    IN  IF at = {} THEN 0 ELSE CHOOSE i \in at : \A j \in at : i <= j

\* the four section headers occur in s, in their order
HeadersInOrder(s) ==
    LET h1 == First(s, "### Explanation\n")
        h2 == First(s, "### Code\n")
        h3 == First(s, "### Time & Space Complexity\n")
        h4 == First(s, "### Suggestions\n")
    IN  0 < h1 /\ h1 < h2 /\ h2 < h3 /\ h3 < h4

\* the instruction as submitted
Submitted == IF form.prompt.present THEN form.prompt.value ELSE ""

Success == DOMAIN result.body = {"content", "model_used", "metrics"}

Failure == DOMAIN result.body = {"error"}

(* C1: a request whose instruction is empty after trimming ends with the   *)
(* validation error, status 400; no upload is read, process_files is not   *)
(* entered and the backend is not invoked.                                 *)
C1_EmptyInstructionRejected ==
    (pc # "start" /\ Blank(Submitted)) =>
        /\ pc = "done"
        /\ result = [status |-> 400, body |-> [error |-> "Prompt cannot be empty!"]]
        /\ returned = 1
        /\ reads = 0
        /\ calls = <<>>
        /\ sent = <<>>

C1_Witness ==
    /\ pc = "done"
    /\ Submitted = "   "
    /\ Len(files) = 2
    /\ result.status = 400

(* C2: once process_files has been entered, a failure while reading or     *)
(* extracting an item never aborts the batch or fails the request: there   *)
(* is one (name, text) entry per upload, in upload order, and the request  *)
(* goes on to compose the prompt.                                          *)
C2_FailureNeverAbortsBatch ==
    calls # <<>> =>
        /\ Len(file_context) = Len(files)
        /\ \A i \in 1..Len(files) : file_context[i].name = UploadName(files[i])
        /\ reads = Len(files)
        /\ ~(pc = "done" /\ calls = <<"process_files">>)

\* the response object holds no usable text
NoUsableText(t) ==
    \/ t.kind \in {"absent", "none", "int", "raises"}
    \/ t.kind = "str" /\ Blank(t.value)

(* C3: a request with a non-empty instruction whose backend response holds *)
(* no usable text ends with the error "Empty response from Gemini API".    *)
C3_NoUsableTextIsEmptyUpstream ==
    (pc = "done" /\ response.kind = "object" /\ NoUsableText(response.text)) =>
        result = [status |-> 500, body |-> [error |-> "Empty response from Gemini API"]]

\* build_prompt has returned for a non-empty instruction and no document
ComposedAlone ==
    /\ pc = "returned"
    /\ arg.user_prompt # ""
    /\ arg.file_context = <<>>

(* C4, as claimed: for a non-empty instruction and no document the prompt  *)
(* holds the four section headers in order and no "$".                     *)
C4_HeadersAndNoDollar ==
    ComposedAlone => HeadersInOrder(ret) /\ Count(ret, "$") = 0

(* C4, amended: for a non-empty instruction and no document the prompt     *)
(* holds the four section headers in order; it holds the three "$" of the  *)
(* template's own no-dollar rule and those of the instruction, no other.   *)
C4_HeadersAndTemplateDollars ==
    ComposedAlone =>
        /\ HeadersInOrder(ret)
        /\ Count(ret, "$") = 3 + Count(arg.user_prompt, "$")

C4_Witness ==
    /\ ComposedAlone
    /\ arg.user_prompt = "sort"
    /\ Count(ret, "$") = 3

\* the length of the segment of a document in the upload block
SegmentLen(doc) ==
    Len("\n--- FILE: ") + Len(doc.name) + Len(" ---\n")
        + (IF Len(doc.text) < 10000 THEN Len(doc.text) ELSE 10000) + 1

\* the length of the upload block before the segment of document i
RECURSIVE SegmentOffset(_, _)
SegmentOffset(docs, i) ==
    IF i = 1 THEN Len("\n\nUPLOADS PROVIDED:\n")
    ELSE SegmentOffset(docs, i - 1) + SegmentLen(docs[i - 1])

\* the length of what a prompt holds before its upload block: the prompt of
\* the same instruction and no document, less the closing directive
BaseLen(instruction) ==
    Len(build_prompt(instruction, <<>>)) - Len("\nFollow the exact format strictly.\n")

\* the part of a prompt between the instruction block and the closing directive
UploadBlock(p, instruction) ==
    SubSeq(p, BaseLen(instruction) + 1,
           Len(p) - Len("\nFollow the exact format strictly.\n"))

(* C5: the upload block of the prompt holds one segment per document, in   *)
(* the order of the sequence, each the file delimiter with the document's  *)
(* name followed by the first min(len(text), 10000) characters of its      *)
(* text; with no document there is no upload block.                        *)
C5_UploadBlockSegments ==
    pc = "returned" =>
        LET docs == arg.file_context
            block == UploadBlock(ret, arg.user_prompt)
            n == Len(docs)
            base == BaseLen(arg.user_prompt)
        IN  /\ SubSeq(ret, 1, base) = SubSeq(build_prompt(arg.user_prompt, <<>>), 1, base)
            /\ SubSeq(ret, base - 1, base) = "\n\n"
            /\ SubSeq(ret, base + Len(block) + 1, Len(ret))
                  = "\nFollow the exact format strictly.\n"
            /\ IF n = 0
               THEN block = "" /\ ~Contains(ret, "UPLOADS PROVIDED")
               ELSE
                 /\ SubSeq(block, 1, SegmentOffset(docs, 1)) = "\n\nUPLOADS PROVIDED:\n"
                 /\ Len(block) = SegmentOffset(docs, n) + SegmentLen(docs[n])
                 /\ \A i \in 1..n :
                       LET off == SegmentOffset(docs, i)
                           delim == "\n--- FILE: " \o docs[i].name \o " ---\n"
                           kept == IF Len(docs[i].text) < 10000
                                   THEN Len(docs[i].text) ELSE 10000
                       IN  /\ SubSeq(block, off + 1, off + Len(delim)) = delim
                           /\ SubSeq(block, off + Len(delim) + 1, off + Len(delim) + kept)
                                = SubSeq(docs[i].text, 1, kept)
                           /\ At(block, off + Len(delim) + kept + 1) = "\n"

C5_Witness ==
    /\ pc = "returned"
    /\ Len(arg.file_context) = 2
    /\ Len(arg.file_context[1].text) > 10000
    /\ arg.file_context[2].name = "file"
    /\ Contains(ret, "UPLOADS PROVIDED")

\* the complexity tag of a successful request
Tag == result.body.metrics.complexity

Succeeded == pc = "done" /\ Success

(* C6, as claimed: of a successful request, an instruction containing      *)
(* "IBNR" in any case yields O(n^2), one containing "binary search" yields *)
(* O(log n), one containing neither nor "sort" yields O(1).                *)
C6_ComplexityHeuristic ==
    Succeeded =>
        /\ Contains(Lower(prompt), "ibnr") => Tag = "O(n^2)"
        /\ Contains(prompt, "binary search") => Tag = "O(log n)"
        /\ (/\ ~Contains(Lower(prompt), "ibnr")
            /\ ~Contains(prompt, "binary search")
            /\ ~Contains(prompt, "sort")) => Tag = "O(1)"

(* C6, amended: of a successful request, an instruction containing "IBNR"  *)
(* in any case yields O(n^2); one containing "binary search" and, in any   *)
(* case, neither "chain ladder" nor "ibnr" yields O(log n); one containing *)
(* in any case none of "chain ladder", "ibnr", "binary search",            *)
(* "logarithmic" and "sort" yields O(1).                                   *)
C6_ComplexityHeuristicOrdered ==
    Succeeded =>
        LET low == Lower(prompt)
            ladder == Contains(low, "chain ladder") \/ Contains(low, "ibnr")
        IN  /\ Contains(low, "ibnr") => Tag = "O(n^2)"
            /\ (Contains(prompt, "binary search") /\ ~ladder) => Tag = "O(log n)"
            /\ (/\ ~ladder
                /\ ~Contains(low, "binary search")
                /\ ~Contains(low, "logarithmic")
                /\ ~Contains(low, "sort")) => Tag = "O(1)"

C6_Witness ==
    /\ Succeeded
    /\ prompt = "binary searchIBNR"
    /\ Tag = "O(n^2)"

\* the Code section of the prompt p, which follows the Explanation section,
\* asks for the language lang
Requests(p, lang) ==
    LET before == "### Code\nWrite clean, minimal code related to the actuarial problem in **"
        line == before \o lang \o "**. If no language is specified, use Python.\n"
        at == First(TemplateHead, "### Code\n")
    IN  SubSeq(p, at, at + Len(line) - 1) = line

(* C7: the language of the Code section follows the lower-cased            *)
(* instruction in the order "c++ code"/"cpp code" -> C++, else "java code" *)
(* -> Java, else "javascript code"/"js code" -> JavaScript, else Python,   *)
(* the first rule that matches winning: "I need c++ code" asks for C++     *)
(* whatever else is mentioned, and no language hint asks for Python.       *)
C7_LanguagePriority ==
    pc = "returned" =>
        LET low == Lower(arg.user_prompt)
            cpp == Contains(low, "c++ code") \/ Contains(low, "cpp code")
            java == Contains(low, "java code")
            js == Contains(low, "javascript code") \/ Contains(low, "js code")
            hint == \E w \in {"c++", "cpp", "java", "js"} : Contains(low, w)
        IN  /\ cpp => Requests(ret, "C++")
            /\ (~cpp /\ java) => Requests(ret, "Java")
            /\ (~cpp /\ ~java /\ js) => Requests(ret, "JavaScript")
            /\ (~cpp /\ ~java /\ ~js) => Requests(ret, "Python")
            /\ Contains(arg.user_prompt, "I need c++ code") => Requests(ret, "C++")
            /\ ~hint => Requests(ret, "Python")
            /\ Cardinality({l \in {"C++", "Java", "JavaScript", "Python"} :
                              Requests(ret, l)}) = 1

C7_Witness ==
    /\ pc = "returned"
    /\ arg.user_prompt = "Java codeI need c++ code"
    /\ Requests(ret, "C++")

\* the rows read_csv_file parses from the bytes of its argument
ParsedRows == CsvRows(DecodeIgnore(arg.raw, 1, Len(arg.raw)))

\* the lines of the rendered preview
PreviewLines == Pieces(ret, {<<i, i>> : i \in {j \in 1..Len(ret) : At(ret, j) = "\n"}})

CsvRead == pc = "returned" /\ arg.fault = NoError

(* C8: of a CSV input that parses to more than 60 rows the preview renders *)
(* the first 60 rows, in order, then the one row "... TRUNCATED ..." as    *)
(* the last; of an input of at most 60 rows it renders every row and no    *)
(* marker row.                                                             *)
C8_CsvPreviewCap ==
    CsvRead =>
        LET rows == ParsedRows
        IN  IF Len(rows) > 60
            THEN /\ Len(PreviewLines) = 61
                 /\ \A k \in 1..60 : PreviewLines[k] = Join(", ", rows[k])
                 /\ PreviewLines[61] = "... TRUNCATED ..."
            ELSE IF Len(rows) = 0 THEN ret = ""
            ELSE /\ Len(PreviewLines) = Len(rows)
                 /\ \A k \in 1..Len(rows) : PreviewLines[k] = Join(", ", rows[k])

C8_Witness ==
    /\ CsvRead
    /\ Len(ParsedRows) = 62
    /\ Len(PreviewLines) = 61

\* the PDF file of the call parses
PdfParsed == pc = "returned" /\ arg.fault = NoError /\ arg.pdf.error = NoError

\* the number of pages extraction may be attempted on
Reach == IF Len(arg.pdf.pages) < 10 THEN Len(arg.pdf.pages) ELSE 10

\* the texts of the pages of index below n whose text is not blank, in order
RECURSIVE NonBlankTexts(_, _)
NonBlankTexts(pdf_pages, n) ==
    IF n = 0 THEN <<>>
    ELSE LET p == pdf_pages[n]
         IN  NonBlankTexts(pdf_pages, n - 1)
               \o (IF p.kind = "text" /\ ~Blank(p.text) THEN <<p.text>> ELSE <<>>)

\* extraction was attempted on the pages of index 0..n-1, in order
AttemptedFirst(n) ==
    /\ Len(ret.attempted) = n
    /\ \A k \in 1..n : ret.attempted[k] = k - 1

\* the indexes, below the cap, of the pages whose extraction raises
Raising == {i \in 0..(Reach - 1) : arg.pdf.pages[i + 1].kind = "raise"}

(* C9, as claimed: extraction is attempted on the first 10 pages at most,  *)
(* in order, never on a page of index 10 or more; the result is the        *)
(* newline-joined text of the pages among the first 10 whose text is not   *)
(* blank.                                                                  *)
C9_PdfPageCap ==
    PdfParsed =>
        /\ Len(ret.attempted) <= 10
        /\ \A k \in 1..Len(ret.attempted) : ret.attempted[k] = k - 1
        /\ ret.text = Join("\n", NonBlankTexts(arg.pdf.pages, Reach))

(* C9, amended: extraction is attempted on the first 10 pages at most, in  *)
(* order, never on a page of index 10 or more; when no attempted           *)
(* extraction raises, the result is the newline-joined text of the pages   *)
(* among the first 10 whose text is not blank; when one raises, no later   *)
(* page is attempted and the result is "[PDF read error: <cause>]".        *)
C9_PdfPageCapOrDiagnostic ==
    PdfParsed =>
        IF Raising = {}
        THEN /\ AttemptedFirst(Reach)
             /\ ret.text = Join("\n", NonBlankTexts(arg.pdf.pages, Reach))
        ELSE LET r == CHOOSE i \in Raising : \A j \in Raising : i <= j
             IN  /\ AttemptedFirst(r + 1)
                 /\ ret.text = "[PDF read error: " \o arg.pdf.pages[r + 1].text \o "]"

C9_Witness ==
    /\ PdfParsed
    /\ Len(arg.pdf.pages) = 12
    /\ arg.pdf.pages[4].kind = "none"
    /\ Len(ret.attempted) = 10

(* C10: a request returns one result, when it ends and not before: a       *)
(* success object or an error object, never both; a success comes only     *)
(* after the backend was invoked with the composed prompt, and its content *)
(* is the trimmed, non-empty text of the backend; a backend call that      *)
(* raises yields the error "Server error: <cause>".                        *)
C10_OneResult ==
    /\ returned = (IF pc = "done" THEN 1 ELSE 0)
    /\ pc # "done" => result = NoResult
    /\ pc = "done" =>
        /\ Success \/ Failure
        /\ ~(Success /\ Failure)
        /\ Success =>
              /\ sent = <<[model |-> model_name, prompt |-> full_prompt]>>
              /\ calls = <<"process_files", "build_prompt", "generate_content">>
              /\ First(full_prompt, "USER PROMPT:\n" \o prompt \o "\n") > 0
              /\ result.status = 200
              /\ response.kind = "object" /\ response.text.kind = "str"
              /\ result.body.content # ""
              /\ ~IsSpace(At(result.body.content, 1))
              /\ ~IsSpace(At(result.body.content, Len(result.body.content)))
              /\ Contains(response.text.value, result.body.content)
              /\ Blank(SubSeq(response.text.value, 1,
                              First(response.text.value, result.body.content) - 1))
        /\ response.kind = "raise" =>
              result = [status |-> 500,
                        body |-> [error |-> "Server error: " \o response.cause]]

C10_Witness ==
    /\ pc = "done"
    /\ Success
    /\ Len(files) = 2
    /\ result.body.content = "### Explanation\nok"

=============================================================================
